---- MODULE Spec2Model ----
(***************************************************************************)
(* k8s_aws_secrets_sync: one run of src/main.rs.                           *)
(*                                                                         *)
(* A run lists the tagged secrets of AWS Secrets Manager, and for each one *)
(* reads its tags, fetches and parses its value, builds the data map and   *)
(* applies it as a Kubernetes Secret to every namespace of its namespace   *)
(* tag.                                                                    *)
(*                                                                         *)
(* Strings that the program takes apart or encodes (tag values, payload    *)
(* keys and values, base64 text) are sequences of Unicode code points;     *)
(* byte strings are sequences of 0..255.  Tag keys and secret ids are only *)
(* compared and are TLA+ strings.                                          *)
(***************************************************************************)
EXTENDS Integers, Sequences, FiniteSets, TLC

VARIABLES
    pc,             \* position of main: list, loop, extract, fetch, parse,
                    \*   transform, kube, apply, done
    exit,           \* running | ok (Ok(())) | err (a `?` returned) | panic
    secrets,        \* the discovered Vec<SecretListEntry>
    cur,            \* 1-based position of the `for secret in secrets` loop
    secret_name,    \* local of the loop body, line 66
    namespaces,     \* local of the loop body, line 67
    secret_string,  \* the response of get_secret_value, line 70
    secret_value,   \* the parsed HashMap<String, String>, line 71
    data_map,       \* local of the loop body, line 76
    ns_idx,         \* position of the `for namespace in namespaces` loop
    fetched,        \* history: the get_secret_value calls made, in order
    applied         \* history: the patch (apply) calls made, in order

vars == <<pc, exit, secrets, cur, secret_name, namespaces, secret_string,
          secret_value, data_map, ns_idx, fetched, applied>>

---------------------------------------------------------------------------
(* Characters the code names. *)

\* ' ', the separator of value.split(' ')
SP == 32
\* '\n', the line end written by create_filesecret_from_aws_secret
NL == 10
\* '=', between key and value in a line of the file secret
EQ == 61
\* '=', the padding character of the STANDARD base64 engine
PAD == 61

(* Bounds of the model. *)
MaxSecrets == 3
MaxNsLen == 5
MaxValLen == 2

---------------------------------------------------------------------------
(* Sequences. *)

Range(s) == {s[i] : i \in 1..Len(s)}

RECURSIVE SeqsUpTo(_, _)
\* all sequences over S of length at most n
SeqsUpTo(S, n) ==
    IF n = 0 THEN {<<>>}
    ELSE LET shorter == SeqsUpTo(S, n - 1)
         IN  shorter \cup {Append(s, x) : s \in shorter, x \in S}

\* the orders in which a HashMap with key set K may be iterated
Orders(K) ==
    {o \in SeqsUpTo(K, Cardinality(K)) :
        Len(o) = Cardinality(K) /\ Range(o) = K}

---------------------------------------------------------------------------
(* String::as_bytes: the UTF-8 bytes of a string. *)

Utf8Char(c) ==
    IF c < 128 THEN <<c>>
    ELSE IF c < 2048 THEN <<192 + (c \div 64), 128 + (c % 64)>>
    ELSE IF c < 65536 THEN
        <<224 + (c \div 4096), 128 + ((c \div 64) % 64), 128 + (c % 64)>>
    ELSE <<240 + (c \div 262144), 128 + ((c \div 4096) % 64),
           128 + ((c \div 64) % 64), 128 + (c % 64)>>

RECURSIVE as_bytes(_)
as_bytes(s) ==
    IF s = <<>> THEN <<>> ELSE Utf8Char(Head(s)) \o as_bytes(Tail(s))

(* general_purpose::STANDARD: the alphabet A-Z a-z 0-9 + /, with padding. *)

B64Char(v) ==
    IF v < 26 THEN 65 + v
    ELSE IF v < 52 THEN 97 + (v - 26)
    ELSE IF v < 62 THEN 48 + (v - 52)
    ELSE IF v = 62 THEN 43
    ELSE 47

RECURSIVE EncodeBytes(_)
EncodeBytes(b) ==
    IF Len(b) = 0 THEN <<>>
    ELSE IF Len(b) = 1 THEN
        <<B64Char(b[1] \div 4), B64Char((b[1] % 4) * 16), PAD, PAD>>
    ELSE IF Len(b) = 2 THEN
        <<B64Char(b[1] \div 4),
          B64Char((b[1] % 4) * 16 + (b[2] \div 16)),
          B64Char((b[2] % 16) * 4), PAD>>
    ELSE
        <<B64Char(b[1] \div 4),
          B64Char((b[1] % 4) * 16 + (b[2] \div 16)),
          B64Char((b[2] % 16) * 4 + (b[3] \div 64)),
          B64Char(b[3] % 64)>> \o EncodeBytes(SubSeq(b, 4, Len(b)))

\* engine.encode(s.as_bytes())
encode(s) == EncodeBytes(as_bytes(s))

---------------------------------------------------------------------------
(* Args: the three tag keys given on the command line, fixed for a run. *)

namespace_tag == "ns"
secret_name_tag == "name"
filename_tag == "file"

(* The tag lookups: iter().find(|tag| tag.key == key). *)

RECURSIVE FindFrom(_, _, _)
\* the position of the first tag at or after i whose key is key, 0 if none
FindFrom(tags, key, i) ==
    IF i > Len(tags) THEN 0
    ELSE IF tags[i].key = key THEN i
    ELSE FindFrom(tags, key, i + 1)

find(tags, key) == FindFrom(tags, key, 1)

\* whether find(..) is Some: the .unwrap() after it panics otherwise
HasTag(secret, key) == find(secret.tags, key) # 0

RECURSIVE SplitFrom(_, _, _, _)
\* value.split(' ') from position i on: tok is the token being read, acc the
\* tokens already closed
SplitFrom(value, i, tok, acc) ==
    IF i > Len(value) THEN Append(acc, tok)
    ELSE IF value[i] = SP THEN SplitFrom(value, i + 1, <<>>, Append(acc, tok))
    ELSE SplitFrom(value, i + 1, Append(tok, value[i]), acc)

\* a split that drops the empty tokens, as value.split_whitespace() would
split_whitespace(value) ==
    LET NonEmpty(tok) == tok # <<>>
    IN  SelectSeq(SplitFrom(value, 1, <<>>, <<>>), NonEmpty)

split(value) == SplitFrom(value, 1, <<>>, <<>>)

get_name_from_aws_secret(secret, tag) ==
    secret.tags[find(secret.tags, tag)].value

RECURSIVE Dedup(_, _)
Dedup(toks, acc) ==
    IF toks = <<>> THEN acc
    ELSE Dedup(Tail(toks),
               IF Head(toks) \in Range(acc) THEN acc ELSE Append(acc, Head(toks)))

\* the namespaces with each one kept once
get_namespaces_deduplicated(secret, tag) ==
    Dedup(split(secret.tags[find(secret.tags, tag)].value), <<>>)

get_namespaces_from_aws_secret(secret, tag) ==
    split(secret.tags[find(secret.tags, tag)].value)

\* Option<String>: [some |-> FALSE] is None
get_filename_from_aws_secret(secret, tag) ==
    IF find(secret.tags, tag) = 0
    THEN [some |-> FALSE, value |-> <<>>]
    ELSE [some |-> TRUE, value |-> secret.tags[find(secret.tags, tag)].value]

---------------------------------------------------------------------------
(* The secret string and serde_json::from_str::<HashMap<String, String>>.  *)
(* A secret string is abstracted to the JSON document it holds:            *)
(*   kind "none"    no secret_string (a binary secret)                     *)
(*   kind "text"    text that is not JSON                                  *)
(*   kind "array"   JSON, but not an object                                *)
(*   kind "object"  an object; members in textual order, each a key and    *)
(*                  either a string value (str) or another JSON value      *)

NoString == [kind |-> "none", members |-> <<>>]

Member(k, v) == [key |-> k, str |-> TRUE, val |-> v]

Object(ms) == [kind |-> "object", members |-> ms]

RECURSIVE CollectMembers(_, _)
\* inserting the members into a HashMap one by one: a repeated key keeps the
\* last value
CollectMembers(ms, map) ==
    IF ms = <<>> THEN map
    ELSE CollectMembers(Tail(ms),
            [k \in DOMAIN map \cup {Head(ms).key} |->
                IF k = Head(ms).key THEN Head(ms).val ELSE map[k]])

EmptyMap == [k \in {} |-> <<>>]

\* Result<HashMap<String, String>>
from_str(doc) ==
    IF doc.kind = "object" /\ \A i \in 1..Len(doc.members) : doc.members[i].str
    THEN [ok |-> TRUE, map |-> CollectMembers(doc.members, EmptyMap)]
    ELSE [ok |-> FALSE, map |-> EmptyMap]

---------------------------------------------------------------------------
(* The two transformers. *)

RECURSIVE FoldLines(_, _)
\* the fold of create_filesecret_from_aws_secret over the entries in the
\* order the HashMap yields them
FoldLines(map, order) ==
    IF order = <<>> THEN <<>>
    ELSE Head(order) \o <<EQ>> \o map[Head(order)] \o <<NL>>
            \o FoldLines(map, Tail(order))

RECURSIVE FoldPairs(_, _)
FoldPairs(map, order) ==
    IF order = <<>> THEN <<>>
    ELSE Head(order) \o <<EQ>> \o map[Head(order)] \o FoldPairs(map, Tail(order))

\* the file secret written with "{}={}", without the line end
create_filesecret_without_newline(map, filename, order) ==
    filename :> encode(FoldPairs(map, order))

\* order: the iteration order of the HashMap, which the program does not choose
create_filesecret_from_aws_secret(map, filename, order) ==
    filename :> encode(FoldLines(map, order))

\* the data map encoded by an engine that does not pad (STANDARD_NO_PAD)
create_datamap_no_pad(map) ==
    LET NotPad(c) == c # PAD
    IN  [key \in DOMAIN map |-> SelectSeq(encode(map[key]), NotPad)]

create_datamap_from_aws_secret(map) ==
    [key \in DOMAIN map |-> encode(map[key])]

---------------------------------------------------------------------------
(* What the two services may answer. *)

Tag(k, v) == [key |-> k, value |-> v]

\* the descriptors of a ListSecrets answer: the store names each secret
\* differently, and gives every secret it lists its name and its tags, each
\* tag with a key and a value (the .unwrap() calls on them do not panic)
Entries(tagsets) ==
    [i \in 1..Len(tagsets) |-> [name |-> ToString(i), tags |-> tagsets[i]]]

\* list_secrets().send(): an error, or a list (no secret_list is the empty one)
ListAnswers(lists) ==
    {[ok |-> FALSE, list |-> <<>>]} \cup {[ok |-> TRUE, list |-> l] : l \in lists}

\* get_secret_value().send(): an error, or a response
GetAnswers(docs) ==
    {[ok |-> FALSE, doc |-> NoString]} \cup {[ok |-> TRUE, doc |-> d] : d \in docs}

(* The answers of the runs checked under Spec: a few secrets, each with one *)
(* of the tag sets below, and one of the documents below.                   *)

\* "db", "env", "x": a destination name, a file name, another name
StrDb == <<100, 98>>
StrEnv == <<101, 110, 118>>
StrX == <<120>>
\* "u", "p": field names
StrU == <<117>>
StrP == <<112>>

TagSets ==
    { \* "a b": two namespaces, field-map mode; two tags with the name key
      <<Tag(secret_name_tag, StrDb), Tag(namespace_tag, <<97, SP, 98>>),
        Tag(secret_name_tag, StrX)>>,
      \* one namespace, file-secret mode
      <<Tag(namespace_tag, <<97>>), Tag(filename_tag, StrEnv),
        Tag(secret_name_tag, StrDb)>>,
      \* no namespace tag: the key only starts with the filtered key
      <<Tag("nsx", <<97>>), Tag(secret_name_tag, StrDb)>>,
      \* no name tag
      <<Tag(namespace_tag, <<97>>)>> }

Docs ==
    { NoString,
      [kind |-> "text", members |-> <<>>],
      [kind |-> "array", members |-> <<>>],
      \* {"u": 1}
      Object(<<[key |-> StrU, str |-> FALSE, val |-> <<>>]>>),
      \* {}
      Object(<<>>),
      \* {"u": "a", "p": "b"}
      Object(<<Member(StrU, <<97>>), Member(StrP, <<98>>)>>) }

SecretLists == {Entries(l) : l \in SeqsUpTo(TagSets, MaxSecrets)}

---------------------------------------------------------------------------
(* main *)

Init ==
    /\ pc = "list"
    /\ exit = "running"
    /\ secrets = <<>>
    /\ cur = 0
    /\ secret_name = <<>>
    /\ namespaces = <<>>
    /\ secret_string = NoString
    /\ secret_value = EmptyMap
    /\ data_map = EmptyMap
    /\ ns_idx = 0
    /\ fetched = <<>>
    /\ applied = <<>>

\* lines 52-58: the list call; its error returns from main
Discover(lists) ==
    /\ pc = "list" /\ exit = "running"
    /\ \E r \in ListAnswers(lists) :
        IF r.ok
        THEN /\ secrets' = r.list
             /\ cur' = 1
             /\ pc' = "loop"
             /\ exit' = exit
        ELSE /\ exit' = "err"
             /\ UNCHANGED <<secrets, cur, pc>>
    /\ UNCHANGED <<secret_name, namespaces, secret_string, secret_value,
                   data_map, ns_idx, fetched, applied>>

\* line 64, and line 106 when the loop is over: the locals of the last
\* iteration are gone
NextSecret ==
    /\ pc = "loop" /\ exit = "running"
    /\ IF cur <= Len(secrets)
       THEN pc' = "extract" /\ exit' = exit
       ELSE pc' = "done" /\ exit' = "ok"
    /\ secret_name' = <<>>
    /\ namespaces' = <<>>
    /\ secret_string' = NoString
    /\ secret_value' = EmptyMap
    /\ data_map' = EmptyMap
    /\ ns_idx' = 0
    /\ UNCHANGED <<secrets, cur, fetched, applied>>

\* lines 65-67: the .unwrap() of a tag that is not there panics
Extract ==
    /\ pc = "extract" /\ exit = "running"
    /\ IF HasTag(secrets[cur], secret_name_tag)
          /\ HasTag(secrets[cur], namespace_tag)
       THEN /\ secret_name' =
                    get_name_from_aws_secret(secrets[cur], secret_name_tag)
            /\ namespaces' =
                    get_namespaces_from_aws_secret(secrets[cur], namespace_tag)
            /\ pc' = "fetch"
            /\ exit' = exit
       ELSE /\ exit' = "panic"
            /\ UNCHANGED <<secret_name, namespaces, pc>>
    /\ UNCHANGED <<secrets, cur, secret_string, secret_value, data_map,
                   ns_idx, fetched, applied>>

\* lines 69-70: the get call; its error returns from main
Fetch(docs) ==
    /\ pc = "fetch" /\ exit = "running"
    /\ \E r \in GetAnswers(docs) :
        /\ fetched' = Append(fetched,
                [idx |-> cur, id |-> secrets[cur].name, ok |-> r.ok,
                 doc |-> r.doc])
        /\ IF r.ok
           THEN /\ secret_string' = r.doc
                /\ pc' = "parse"
                /\ exit' = exit
           ELSE /\ exit' = "err"
                /\ UNCHANGED <<secret_string, pc>>
    /\ UNCHANGED <<secrets, cur, secret_name, namespaces, secret_value,
                   data_map, ns_idx, applied>>

\* a parse that takes the empty map where the program panics
\* (unwrap_or_default)
ParseOrDefault ==
    /\ pc = "parse" /\ exit = "running"
    /\ secret_value' = from_str(secret_string).map
    /\ pc' = "transform"
    /\ UNCHANGED <<exit, secrets, cur, secret_name, namespaces, secret_string,
                   data_map, ns_idx, fetched, applied>>

\* lines 71-72: no secret string, or one that from_str rejects, panics
Parse ==
    /\ pc = "parse" /\ exit = "running"
    /\ IF secret_string.kind # "none" /\ from_str(secret_string).ok
       THEN /\ secret_value' = from_str(secret_string).map
            /\ pc' = "transform"
            /\ exit' = exit
       ELSE /\ exit' = "panic"
            /\ UNCHANGED <<secret_value, pc>>
    /\ UNCHANGED <<secrets, cur, secret_name, namespaces, secret_string,
                   data_map, ns_idx, fetched, applied>>

\* lines 76-79
Transform ==
    /\ pc = "transform" /\ exit = "running"
    /\ LET filename == get_filename_from_aws_secret(secrets[cur], filename_tag)
       IN  IF filename.some
           THEN \E order \in Orders(DOMAIN secret_value) :
                    data_map' = create_filesecret_from_aws_secret(
                                    secret_value, filename.value, order)
           ELSE data_map' = create_datamap_from_aws_secret(secret_value)
    /\ pc' = "kube"
    /\ UNCHANGED <<exit, secrets, cur, secret_name, namespaces, secret_string,
                   secret_value, ns_idx, fetched, applied>>

\* line 81: the cluster client, made for every secret; its error returns
\* from main
KubeClient ==
    /\ pc = "kube" /\ exit = "running"
    /\ \E ok \in BOOLEAN :
        IF ok
        THEN /\ pc' = "apply"
             /\ ns_idx' = 1
             /\ exit' = exit
        ELSE /\ exit' = "err"
             /\ UNCHANGED <<pc, ns_idx>>
    /\ UNCHANGED <<secrets, cur, secret_name, namespaces, secret_string,
                   secret_value, data_map, fetched, applied>>

\* the namespace loop with the call of line 83, whose `?` returns the error
\* of the patch from main
ApplyOrReturn ==
    /\ pc = "apply" /\ exit = "running"
    /\ \E ok \in BOOLEAN :
        /\ applied' = Append(applied,
                [idx |-> cur, namespace |-> namespaces[ns_idx],
                 name |-> secret_name, data |-> data_map, ok |-> ok])
        /\ IF ~ok
           THEN /\ exit' = "err"
                /\ UNCHANGED <<pc, cur, ns_idx>>
           ELSE /\ exit' = exit
                /\ IF ns_idx < Len(namespaces)
                   THEN /\ ns_idx' = ns_idx + 1
                        /\ UNCHANGED <<pc, cur>>
                   ELSE /\ pc' = "loop"
                        /\ cur' = cur + 1
                        /\ ns_idx' = ns_idx
    /\ UNCHANGED <<secrets, secret_name, namespaces, secret_string,
                   secret_value, data_map, fetched>>

\* lines 82-104: one turn of the namespace loop; the result of the patch is
\* logged, whatever it is
Apply ==
    /\ pc = "apply" /\ exit = "running"
    /\ \E ok \in BOOLEAN :
        applied' = Append(applied,
            [idx |-> cur, namespace |-> namespaces[ns_idx],
             name |-> secret_name, data |-> data_map, ok |-> ok])
    /\ IF ns_idx < Len(namespaces)
       THEN /\ ns_idx' = ns_idx + 1
            /\ UNCHANGED <<pc, cur>>
       ELSE /\ pc' = "loop"
            /\ cur' = cur + 1
            /\ ns_idx' = ns_idx
    /\ UNCHANGED <<exit, secrets, secret_name, namespaces, secret_string,
                   secret_value, data_map, fetched>>

Body ==
    \/ NextSecret
    \/ Extract
    \/ Parse
    \/ Transform
    \/ KubeClient
    \/ Apply

Next ==
    \/ Discover(SecretLists)
    \/ Fetch(Docs)
    \/ Body

Spec == Init /\ [][Next]_vars

---------------------------------------------------------------------------
(* Runs on one secret whose namespace tag holds any string of a, b and     *)
(* spaces up to MaxNsLen characters (and which has two tags with the name  *)
(* key).                                                                   *)

NsChars == {97, 98, SP}

NsLists ==
    {Entries(<<<<Tag(secret_name_tag, StrDb), Tag(namespace_tag, v),
                 Tag(secret_name_tag, StrX)>>>>) :
        v \in SeqsUpTo(NsChars, MaxNsLen)}

NextNs ==
    \/ Discover(NsLists)
    \/ Fetch(Docs)
    \/ Body

SpecNs == Init /\ [][NextNs]_vars

(* Runs on one secret, with or without the filename tag, whose payload is  *)
(* any object over the keys "u" and "p", in either textual order, with     *)
(* values of a, newline and e-acute (two bytes in UTF-8) up to MaxValLen   *)
(* characters; an object that repeats a key; and one whose key holds a     *)
(* newline.                                                                *)

ValChars == {97, NL, 233}

PayloadKeys == {StrU, StrP}

KeyOrders == UNION {Orders(K) : K \in SUBSET PayloadKeys}

PayloadValues == SeqsUpTo(ValChars, MaxValLen)

PayloadDocs ==
    UNION {{Object([i \in 1..Len(ko) |-> Member(ko[i], vs[i])]) :
                vs \in [1..Len(ko) -> PayloadValues]} : ko \in KeyOrders}
    \cup { \* {"u": "a", "u": ""}
           Object(<<Member(StrU, <<97>>), Member(StrU, <<>>)>>),
           \* {"k\n": "a"}
           Object(<<Member(<<107, NL>>, <<97>>)>>) }

PayloadLists ==
    { Entries(<<<<Tag(secret_name_tag, StrDb), Tag(namespace_tag, <<97>>)>>>>),
      Entries(<<<<Tag(secret_name_tag, StrDb), Tag(namespace_tag, <<97>>),
                  Tag(filename_tag, StrEnv)>>>>) }

NextPayload ==
    \/ Discover(PayloadLists)
    \/ Fetch(PayloadDocs)
    \/ Body

SpecPayload == Init /\ [][NextPayload]_vars

---------------------------------------------------------------------------
(* What the properties speak of, stated on the discovered secrets and the  *)
(* two histories, not by the program's own functions.                      *)

Terminated == exit # "running"

Positions == 1..Len(secrets)

\* the value of the first tag of secret i whose key is key
TagValue(i, key) ==
    LET tags == secrets[i].tags
        j == CHOOSE j \in 1..Len(tags) :
                /\ tags[j].key = key
                /\ \A m \in 1..(j - 1) : tags[m].key # key
    IN  tags[j].value

TagPresent(i, key) == \E t \in Range(secrets[i].tags) : t.key = key

MissingTag(i) ==
    ~TagPresent(i, secret_name_tag) \/ ~TagPresent(i, namespace_tag)

\* a JSON object mapping field names to string values
WellFormed(doc) ==
    doc.kind = "object" /\ \A m \in Range(doc.members) : m.str

FetchFailed(i) == \E f \in Range(fetched) : f.idx = i /\ ~f.ok

Malformed(i) == \E f \in Range(fetched) : f.idx = i /\ f.ok /\ ~WellFormed(f.doc)

FetchedWell(i) == \E f \in Range(fetched) : f.idx = i /\ f.ok /\ WellFormed(f.doc)

\* main returned the error of the cluster client made for secret i
ClientFailed(i) == cur = i /\ pc = "kube" /\ exit = "err"

\* a step of secret i's own processing failed
FailedItself(i) ==
    MissingTag(i) \/ FetchFailed(i) \/ Malformed(i) \/ ClientFailed(i)

\* the apply calls issued for secret i, in order
AppliedTo(i) ==
    LET Mine(a) == a.idx = i
    IN  SelectSeq(applied, Mine)

NamespacesApplied(i) ==
    [k \in 1..Len(AppliedTo(i)) |-> AppliedTo(i)[k].namespace]

RECURSIVE JoinWith(_, _)
\* the tokens written one after the other with sep between them
JoinWith(toks, sep) ==
    IF Len(toks) = 1 THEN toks[1]
    ELSE toks[1] \o <<sep>> \o JoinWith(Tail(toks), sep)

\* toks is value split on single spaces: no token holds a space, and the
\* tokens joined by single spaces are value again
IsSplitOf(toks, value) ==
    /\ Len(toks) >= 1
    /\ \A k \in 1..Len(toks) : SP \notin Range(toks[k])
    /\ JoinWith(toks, SP) = value

\* secret i was applied to each of its namespaces, in order
FullyApplied(i) == IsSplitOf(NamespacesApplied(i), TagValue(i, namespace_tag))

\* every secret but i that does not fail itself is applied in full
OthersApplied(i) ==
    \A j \in Positions \ {i} : ~FailedItself(j) => FullyApplied(j)

---------------------------------------------------------------------------
(* C1. Fault isolation on fetch: when the run has ended and the fetch of   *)
(* one secret failed, every other secret of the discovered sequence,       *)
(* before or after it, that does not fail itself has been fetched and      *)
(* applied to all its namespaces.                                          *)
C1_FetchFaultIsolation ==
    Terminated =>
        \A i \in Positions : FetchFailed(i) =>
            /\ AppliedTo(i) = <<>>
            /\ OthersApplied(i)

(* C2. Missing-tag isolation: when the run has ended, a secret that lacks  *)
(* the name tag or the namespace tag has failed alone: every other secret  *)
(* that does not fail itself has been processed and applied.               *)
C2_MissingTagIsolation ==
    Terminated =>
        \A i \in Positions : MissingTag(i) => OthersApplied(i)

(* C5. Malformed-payload isolation: when the run has ended, a secret whose *)
(* fetched string is absent or not an object of strings got no apply call, *)
(* and every other secret that does not fail itself has been applied.      *)
C5_MalformedPayloadIsolation ==
    Terminated =>
        \A i \in Positions : Malformed(i) =>
            /\ AppliedTo(i) = <<>>
            /\ OthersApplied(i)

(* C4. Exit status: a run that has ended succeeded exactly when discovery  *)
(* succeeded; only a failed list call gives a non-zero status.             *)
C4_ExitStatus ==
    Terminated => (exit = "ok" <=> pc # "list")

(* C3. Apply-failure isolation: a failed apply call never ends the run or  *)
(* the namespace loop.  While its secret is the current one the run is     *)
(* still in the namespace loop, with one call made per namespace passed;   *)
(* once the loop has left that secret, all its namespaces were applied in  *)
(* order and the loop went on to the next secret.                          *)
C3_ApplyFailureIsolated ==
    \A p \in 1..Len(applied) : ~applied[p].ok =>
        LET i == applied[p].idx
        IN  IF i = cur
            THEN /\ exit = "running"
                 /\ pc = "apply"
                 /\ Len(AppliedTo(i)) = ns_idx - 1
                 /\ ns_idx <= Len(namespaces)
            ELSE /\ i < cur
                 /\ FullyApplied(i)
                 /\ (exit = "ok" => \A j \in Positions : FullyApplied(j))

\* an apply of the first of two namespaces failed, the second namespace and
\* the next secret were applied all the same, and the run ended well
C3_Witness ==
    /\ exit = "ok"
    /\ Len(secrets) >= 2
    /\ Len(AppliedTo(1)) = 2
    /\ ~AppliedTo(1)[1].ok
    /\ AppliedTo(1)[2].namespace # AppliedTo(1)[1].namespace
    /\ FullyApplied(2)

(* C10. No partial state: every apply call is for a secret that has both   *)
(* tags and whose value was fetched and is a well-formed object; a secret  *)
(* with a failed step has no apply call; while the list call has not       *)
(* succeeded there is no fetch and no apply call.                          *)
C10_NoPartialState ==
    /\ pc = "list" => fetched = <<>> /\ applied = <<>>
    /\ \A p \in 1..Len(applied) :
        /\ ~MissingTag(applied[p].idx)
        /\ FetchedWell(applied[p].idx)
    /\ \A i \in Positions :
        MissingTag(i) \/ FetchFailed(i) \/ Malformed(i) => AppliedTo(i) = <<>>

\* the first secret was applied, the second one's value is malformed and
\* the run ended on it with no apply call for it
C10_Witness ==
    /\ exit = "panic"
    /\ cur = 2
    /\ Malformed(2)
    /\ Len(AppliedTo(1)) >= 1
    /\ AppliedTo(2) = <<>>

---------------------------------------------------------------------------
(* The reference decoders of the round-trip properties: standard base64    *)
(* with padding, then UTF-8.  Text that is not well formed decodes to      *)
(* <<-1>>, which is no string.                                             *)

B64Value(c) ==
    IF c >= 65 /\ c <= 90 THEN c - 65
    ELSE IF c >= 97 /\ c <= 122 THEN c - 71
    ELSE IF c >= 48 /\ c <= 57 THEN c + 4
    ELSE IF c = 43 THEN 62
    ELSE IF c = 47 THEN 63
    ELSE -1

RECURSIVE Base64Decode(_)
Base64Decode(t) ==
    IF t = <<>> THEN <<>>
    ELSE IF Len(t) < 4 \/ B64Value(t[1]) < 0 \/ B64Value(t[2]) < 0 THEN <<-1>>
    ELSE LET v1 == B64Value(t[1])
             v2 == B64Value(t[2])
             v3 == B64Value(t[3])
             v4 == B64Value(t[4])
         IN  IF t[3] = PAD
             THEN IF Len(t) = 4 /\ t[4] = PAD
                  THEN <<v1 * 4 + (v2 \div 16)>>
                  ELSE <<-1>>
             ELSE IF t[4] = PAD
             THEN IF Len(t) = 4 /\ v3 >= 0
                  THEN <<v1 * 4 + (v2 \div 16), (v2 % 16) * 16 + (v3 \div 4)>>
                  ELSE <<-1>>
             ELSE IF v3 < 0 \/ v4 < 0 THEN <<-1>>
             ELSE <<v1 * 4 + (v2 \div 16), (v2 % 16) * 16 + (v3 \div 4),
                    (v3 % 4) * 64 + v4>> \o Base64Decode(SubSeq(t, 5, Len(t)))

RECURSIVE Utf8Decode(_)
Utf8Decode(b) ==
    IF b = <<>> THEN <<>>
    ELSE IF b[1] < 0 THEN <<-1>>
    ELSE IF b[1] < 128 THEN <<b[1]>> \o Utf8Decode(Tail(b))
    ELSE IF b[1] >= 192 /\ b[1] < 224 /\ Len(b) >= 2
    THEN <<(b[1] - 192) * 64 + (b[2] - 128)>> \o Utf8Decode(SubSeq(b, 3, Len(b)))
    ELSE IF b[1] >= 224 /\ b[1] < 240 /\ Len(b) >= 3
    THEN <<(b[1] - 224) * 4096 + (b[2] - 128) * 64 + (b[3] - 128)>>
            \o Utf8Decode(SubSeq(b, 4, Len(b)))
    ELSE IF b[1] >= 240 /\ Len(b) >= 4
    THEN <<(b[1] - 240) * 262144 + (b[2] - 128) * 4096 + (b[3] - 128) * 64
            + (b[4] - 128)>> \o Utf8Decode(SubSeq(b, 5, Len(b)))
    ELSE <<-1>>

Decoded(t) == Utf8Decode(Base64Decode(t))

(* The payload of a fetched document: its keys, and for each key the value *)
(* of the last member that has it.                                         *)

FetchedDoc(i) == (CHOOSE f \in Range(fetched) : f.idx = i).doc

KeysOf(doc) == {m.key : m \in Range(doc.members)}

ValueOf(doc, k) ==
    LET ms == doc.members
        j == CHOOSE j \in 1..Len(ms) :
                /\ ms[j].key = k
                /\ \A m \in (j + 1)..Len(ms) : ms[m].key # k
    IN  ms[j].val

\* the line of an entry, without its line end
LineOf(k, v) == k \o <<EQ>> \o v

RECURSIVE BlobOf(_, _)
\* one `key=value\n` line per key of order
BlobOf(doc, order) ==
    IF order = <<>> THEN <<>>
    ELSE LineOf(Head(order), ValueOf(doc, Head(order))) \o <<NL>>
            \o BlobOf(doc, Tail(order))

RECURSIVE LinesFrom(_, _, _)
\* the lines of text from position i on, each ended by a newline; line is the
\* one being read (text after the last newline is no line)
LinesFrom(text, i, line) ==
    IF i > Len(text) THEN {}
    ELSE IF text[i] = NL THEN {line} \cup LinesFrom(text, i + 1, <<>>)
    ELSE LinesFrom(text, i + 1, Append(line, text[i]))

LinesOf(text) == LinesFrom(text, 1, <<>>)

EntryLines(doc) == {LineOf(k, ValueOf(doc, k)) : k \in KeysOf(doc)}

NewlineFree(doc) ==
    \A k \in KeysOf(doc) : NL \notin Range(k) /\ NL \notin Range(ValueOf(doc, k))

FileMode(i) == TagPresent(i, filename_tag)

\* the number of spaces of a string
Spaces(value) == Cardinality({k \in 1..Len(value) : value[k] = SP})

---------------------------------------------------------------------------
(* C6. Namespace apply sequence: for every secret the loop has completed,  *)
(* the namespaces of its apply calls are, in order and in number, the      *)
(* tokens of the namespace tag's value split on single spaces, repeated    *)
(* tokens included, and all these calls carry the value of the name tag    *)
(* and one same data map.                                                  *)
C6_NamespaceApplySequence ==
    \A i \in Positions : i < cur =>
        /\ IsSplitOf(NamespacesApplied(i), TagValue(i, namespace_tag))
        /\ \A k \in 1..Len(AppliedTo(i)) :
            /\ AppliedTo(i)[k].name = TagValue(i, secret_name_tag)
            /\ AppliedTo(i)[k].data = AppliedTo(i)[1].data

\* the tag value "b a a" was applied as b, then a, then a again
C6_Witness ==
    /\ cur = 2
    /\ TagValue(1, namespace_tag) = <<98, SP, 97, SP, 97>>
    /\ NamespacesApplied(1) = <<<<98>>, <<97>>, <<97>>>>
    /\ AppliedTo(1)[3].data # <<>>

(* C7, as claimed. Non-empty namespaces: the namespace tag's value expands *)
(* to one or more namespaces and every namespace handed to an apply call   *)
(* is a non-empty token, whatever the value.                               *)
C7_NamespacesNonEmpty ==
    /\ \A i \in Positions : i < cur => Len(AppliedTo(i)) >= 1
    /\ \A p \in 1..Len(applied) : applied[p].namespace # <<>>

(* C7, amended. The namespace tag's value expands to one token more than   *)
(* it has spaces, so to one or more; no token holds a space; a token is    *)
(* empty exactly when the value is empty, starts or ends with a space, or  *)
(* has two spaces in a row; and each apply call gets the token of its      *)
(* place, empty or not.                                                    *)
C7_NamespacesPerSpace ==
    /\ pc \in {"fetch", "parse", "transform", "kube", "apply"} =>
        LET value == TagValue(cur, namespace_tag)
        IN  /\ Len(namespaces) = Spaces(value) + 1
            /\ \A k \in 1..Len(namespaces) : SP \notin Range(namespaces[k])
            /\ (\E k \in 1..Len(namespaces) : namespaces[k] = <<>>)
                <=> \/ value = <<>>
                    \/ value[1] = SP
                    \/ value[Len(value)] = SP
                    \/ \E k \in 1..(Len(value) - 1) :
                            value[k] = SP /\ value[k + 1] = SP
            /\ \A k \in 1..Len(AppliedTo(cur)) :
                    AppliedTo(cur)[k].namespace = namespaces[k]
    /\ \A i \in Positions : i < cur =>
            Len(AppliedTo(i)) = Spaces(TagValue(i, namespace_tag)) + 1

\* "a  b", with two spaces, was applied to a, to the empty namespace and to b
C7_Witness ==
    /\ cur = 2
    /\ NamespacesApplied(1) = <<<<97>>, <<>>, <<98>>>>

(* C8. Field-map mode: for a secret without the filename tag, the data map *)
(* of each apply call has the key set of the fetched payload, and each     *)
(* value decodes, by standard base64 and UTF-8, to the payload's value of  *)
(* that key.                                                               *)
C8_FieldMapRoundTrip ==
    \A p \in 1..Len(applied) : ~FileMode(applied[p].idx) =>
        LET doc == FetchedDoc(applied[p].idx)
            data == applied[p].data
        IN  /\ DOMAIN data = KeysOf(doc)
            /\ \A k \in KeysOf(doc) : Decoded(data[k]) = ValueOf(doc, k)

\* a payload of two fields, one of three bytes and one of one byte, applied
C8_Witness ==
    /\ Len(applied) = 1
    /\ ~FileMode(1)
    /\ KeysOf(FetchedDoc(1)) = {StrU, StrP}
    /\ ValueOf(FetchedDoc(1), StrU) = <<97, 233>>
    /\ ValueOf(FetchedDoc(1), StrP) = <<NL>>

(* C9, as claimed. File-secret mode: for a secret with the filename tag of *)
(* value f, the data map of each apply call has the single key f, its      *)
(* value is the base64 of one `key=value\n` line per payload entry, and    *)
(* the newline-ended lines of the decoded blob are, as a set, the          *)
(* key=value lines of the payload's entries.                               *)
C9_FileSecretLines ==
    \A p \in 1..Len(applied) : FileMode(applied[p].idx) =>
        LET doc == FetchedDoc(applied[p].idx)
            f == TagValue(applied[p].idx, filename_tag)
            data == applied[p].data
        IN  /\ DOMAIN data = {f}
            /\ \E order \in Orders(KeysOf(doc)) :
                    Decoded(data[f]) = BlobOf(doc, order)
            /\ LinesOf(Decoded(data[f])) = EntryLines(doc)

(* C9, amended. The same, the set of lines being that of the entries when  *)
(* no key and no value of the payload holds a newline.                     *)
C9_FileSecretLinesNewlineFree ==
    \A p \in 1..Len(applied) : FileMode(applied[p].idx) =>
        LET doc == FetchedDoc(applied[p].idx)
            f == TagValue(applied[p].idx, filename_tag)
            data == applied[p].data
        IN  /\ DOMAIN data = {f}
            /\ \E order \in Orders(KeysOf(doc)) :
                    Decoded(data[f]) = BlobOf(doc, order)
            /\ NewlineFree(doc) => LinesOf(Decoded(data[f])) = EntryLines(doc)

\* a payload of two fields without newlines, applied as one blob of two lines
C9_Witness ==
    /\ Len(applied) = 1
    /\ FileMode(1)
    /\ KeysOf(FetchedDoc(1)) = {StrU, StrP}
    /\ NewlineFree(FetchedDoc(1))
    /\ ValueOf(FetchedDoc(1), StrU) = <<97, 233>>
    /\ Cardinality(LinesOf(Decoded(applied[1].data[StrEnv]))) = 2

====
